---------------------------- MODULE Spec2Model ----------------------------
(***************************************************************************)
(* The Data Matrix high-level encoder of zxing-cpp                         *)
(* (core/src/datamatrix/DMHighLevelEncoder.cpp) as a state machine: the    *)
(* driver loop of HighLevelEncoder::Encode, the six compactors, the        *)
(* look-ahead test with its single-precision arithmetic, and the encoder   *)
(* context the compactors share.                                           *)
(***************************************************************************)
EXTENDS Integers, Sequences, FiniteSets, TLC

VARIABLES
    call,          \* the arguments of the Encode call: text (msg), shape, sizes
    charSigned,    \* whether plain char is signed in this build
    context,       \* the EncoderContext of the call
    encodingMode,  \* Encode's local encodingMode
    pc,            \* position in Encode and in the running compactor
    buffer,        \* the running compactor's local buffer
    lastCharSize,  \* EncodeC40's lastCharSize
    available,     \* EncodeC40's available
    output,        \* the caller's output vector
    error,         \* the exception that ended the call, "none" otherwise
    hist           \* what the last step did (observation only)

vars == <<call, charSigned, context, encodingMode, pc, buffer, lastCharSize,
          available, output, error, hist>>

-----------------------------------------------------------------------------
(* Program constants *)

PAD == 129
UPPER_SHIFT == 235
MACRO_05 == 236
MACRO_06 == 237
C40_UNLATCH == 254
X12_UNLATCH == 254

ASCII_ENCODATION == 0
C40_ENCODATION == 1
TEXT_ENCODATION == 2
X12_ENCODATION == 3
EDIFACT_ENCODATION == 4
BASE256_ENCODATION == 5

\* L"[)>\x1E05\x1D": a hexadecimal escape takes every hexadecimal digit that
\* follows it, so \x1E05 is the one wide character 0x1E05 = 7685 and the
\* literal has five characters.
MACRO_05_HEADER == <<91, 41, 62, 7685, 29>>
MACRO_06_HEADER == <<91, 41, 62, 7686, 29>>
MACRO_TRAILER == <<30, 4>>

LATCHES == <<0, 230, 239, 238, 240, 231>>

\* A value of type char converted to int: octets 128..255 are negative where
\* plain char is signed.
ToChar(v) ==
    LET o == v % 256
    IN IF charSigned /\ o >= 128 THEN o - 256 ELSE o

\* The octet a char holds (its value & 0xff).
Octet(c) == c % 256

IsDigit(ch) == ch >= 48 /\ ch <= 57

\* A variant of IsExtendedASCII that takes no octet for extended; the
\* codewords of a single extended character depend on the test.
IsExtendedASCIINever(ch) == ch > 255

IsExtendedASCII(ch) == ch >= 128 /\ ch <= 255

IsNativeC40(ch) == (ch = 32) \/ (ch >= 48 /\ ch <= 57) \/ (ch >= 65 /\ ch <= 90)

IsNativeText(ch) == (ch = 32) \/ (ch >= 48 /\ ch <= 57) \/ (ch >= 97 /\ ch <= 122)

IsX12TermSep(ch) == (ch = 13) \/ (ch = 42) \/ (ch = 62)

IsNativeX12(ch) ==
    IsX12TermSep(ch) \/ (ch = 32) \/ (ch >= 48 /\ ch <= 57) \/ (ch >= 65 /\ ch <= 90)

IsNativeEDIFACT(ch) == ch >= 32 /\ ch <= 94

IsSpecialB256(ch) == FALSE

\* A variant of Randomize253State without the wrap at 254; the padding
\* values depend on the wrap.
Randomize253StateNoWrap(ch, codewordPosition) ==
    ch + ((149 * codewordPosition) % 253) + 1

Randomize253State(ch, codewordPosition) ==
    LET pseudoRandom == ((149 * codewordPosition) % 253) + 1
        tempVariable == ch + pseudoRandom
    IN IF tempVariable <= 254 THEN tempVariable ELSE tempVariable - 254

-----------------------------------------------------------------------------
(* Single-precision arithmetic of LookAheadTest.  A float is held as an     *)
(* integer number of units of 2^-24; every value the look-ahead forms is 0  *)
(* or at least 1/2, so it is a whole number of units, and a sum is rounded  *)
(* to the 24-bit significand of its binade, ties to even.                   *)

FUnit == 2^24

\* The spacing of floats around x >= 0 (in units).
FUlp(x) ==
    IF x < 2^24 THEN 1
    ELSE IF x < 2^25 THEN 2
    ELSE IF x < 2^26 THEN 4
    ELSE IF x < 2^27 THEN 8
    ELSE IF x < 2^28 THEN 16
    ELSE IF x < 2^29 THEN 32
    ELSE 64

FRound(x) ==
    LET q == FUlp(x)
        r == x % q
        d == x - r
    IN IF 2 * r < q THEN d
       ELSE IF 2 * r > q THEN d + q
       ELSE IF (d \div q) % 2 = 0 THEN d ELSE d + q

FAdd(a, b) == FRound(a + b)

\* std::ceil, as a float and converted to int.
FCeil(a) == ((a + FUnit - 1) \div FUnit) * FUnit
CeilInt(a) == (a + FUnit - 1) \div FUnit

\* The float constants of the source: n/d rounded to single precision.
FConst(n, d) ==
    LET x == (n * FUnit) \div d           \* floor, in units
        q == FUlp(x)
        lo == x - (x % q)
        twice == 2 * (n * FUnit - lo * d) \* twice the distance to lo, times d
    IN IF twice < q * d THEN lo
       ELSE IF twice > q * d THEN lo + q
       ELSE IF (lo \div q) % 2 = 0 THEN lo ELSE lo + q

-----------------------------------------------------------------------------
(* LookAheadTest.  charCounts is indexed 1..6 for the modes 0..5.           *)

Idx(mode) == mode + 1

\* std::array<float, 6> charCounts = { 0.5f, 1, 1, 1, 1, 1.25f };
StartCharCounts == <<FUnit \div 2, FUnit, FUnit, FUnit, FUnit, (5 * FUnit) \div 4>>

\* A variant of InitialCharCounts that sets the accumulator of the current
\* mode to 0 only inside step J's test; the mode chosen from ASCII depends
\* on where the assignment stands.
InitialCharCountsInsideTest(currentMode) ==
    IF currentMode # ASCII_ENCODATION
    THEN [[i \in 1..6 |-> StartCharCounts[i] * 2] EXCEPT ![Idx(currentMode)] = 0]
    ELSE StartCharCounts

\* Step J and the assignment that follows it.
InitialCharCounts(currentMode) ==
    LET doubled == IF currentMode # ASCII_ENCODATION
                   THEN [i \in 1..6 |-> StartCharCounts[i] * 2]
                   ELSE StartCharCounts
    IN [doubled EXCEPT ![Idx(currentMode)] = 0]

\* Steps L to Q for the character c (a char converted to int).
UpdateCharCounts(cc, c) ==
    LET ascii == IF IsDigit(c) THEN FAdd(cc[1], FUnit \div 2)
                 ELSE IF IsExtendedASCII(c) THEN FAdd(FCeil(cc[1]), 2 * FUnit)
                 ELSE FAdd(FCeil(cc[1]), FUnit)
        c40 == IF IsNativeC40(c) THEN FAdd(cc[2], FConst(2, 3))
               ELSE IF IsExtendedASCII(c) THEN FAdd(cc[2], FConst(8, 3))
               ELSE FAdd(cc[2], FConst(4, 3))
        text == IF IsNativeText(c) THEN FAdd(cc[3], FConst(2, 3))
                ELSE IF IsExtendedASCII(c) THEN FAdd(cc[3], FConst(8, 3))
                ELSE FAdd(cc[3], FConst(4, 3))
        x12 == IF IsNativeX12(c) THEN FAdd(cc[4], FConst(2, 3))
               ELSE IF IsExtendedASCII(c) THEN FAdd(cc[4], FConst(13, 3))
               ELSE FAdd(cc[4], FConst(10, 3))
        edifact == IF IsNativeEDIFACT(c) THEN FAdd(cc[5], FConst(3, 4))
                   ELSE IF IsExtendedASCII(c) THEN FAdd(cc[5], FConst(17, 4))
                   ELSE FAdd(cc[5], FConst(13, 4))
        b256 == IF IsSpecialB256(c) THEN FAdd(cc[6], 4 * FUnit)
                ELSE FAdd(cc[6], FUnit)
    IN <<ascii, c40, text, x12, edifact, b256>>

IntCharCounts(cc) == [i \in 1..6 |-> CeilInt(cc[i])]

MinOf(ic) == CHOOSE m \in {ic[i] : i \in 1..6} : \A i \in 1..6 : m <= ic[i]

\* FindMinimums: mins[i] is 1 where intCharCounts[i] is the minimum, else 0.
FindMinimums(ic) == [i \in 1..6 |-> IF ic[i] = MinOf(ic) THEN 1 ELSE 0]

MinCount(mins) == mins[1] + mins[2] + mins[3] + mins[4] + mins[5] + mins[6]

\* Step K: the message is exhausted.
StepK(cc) ==
    LET ic == IntCharCounts(cc)
        mins == FindMinimums(ic)
        minCount == MinCount(mins)
    IN IF ic[Idx(ASCII_ENCODATION)] = MinOf(ic) THEN ASCII_ENCODATION
       ELSE IF minCount = 1 /\ mins[Idx(BASE256_ENCODATION)] > 0 THEN BASE256_ENCODATION
       ELSE IF minCount = 1 /\ mins[Idx(EDIFACT_ENCODATION)] > 0 THEN EDIFACT_ENCODATION
       ELSE IF minCount = 1 /\ mins[Idx(TEXT_ENCODATION)] > 0 THEN TEXT_ENCODATION
       ELSE IF minCount = 1 /\ mins[Idx(X12_ENCODATION)] > 0 THEN X12_ENCODATION
       ELSE C40_ENCODATION

\* The scan of step R when C40 and X12 tie, from index p (0-based).
RECURSIVE X12Scan(_, _)
X12Scan(msg, p) ==
    IF p >= Len(msg) THEN C40_ENCODATION
    ELSE LET tc == ToChar(msg[p + 1])
         IN IF IsX12TermSep(tc) THEN X12_ENCODATION
            ELSE IF ~IsNativeX12(tc) THEN C40_ENCODATION
            ELSE X12Scan(msg, p + 1)

\* Whether rule (f)'s outer condition holds.
C40Favoured(ic) ==
    /\ ic[Idx(C40_ENCODATION)] + 1 < ic[Idx(ASCII_ENCODATION)]
    /\ ic[Idx(C40_ENCODATION)] + 1 < ic[Idx(BASE256_ENCODATION)]
    /\ ic[Idx(C40_ENCODATION)] + 1 < ic[Idx(EDIFACT_ENCODATION)]
    /\ ic[Idx(C40_ENCODATION)] + 1 < ic[Idx(TEXT_ENCODATION)]

\* Step R after charsProcessed >= 4 characters: the mode returned, or -1 to
\* go on with the next character.
StepR(cc, msg, startpos, charsProcessed) ==
    LET ic == IntCharCounts(cc)
        mins == FindMinimums(ic)
        minCount == MinCount(mins)
        a == ic[Idx(ASCII_ENCODATION)]
    IN IF /\ a < ic[Idx(BASE256_ENCODATION)]
          /\ a < ic[Idx(C40_ENCODATION)]
          /\ a < ic[Idx(TEXT_ENCODATION)]
          /\ a < ic[Idx(X12_ENCODATION)]
          /\ a < ic[Idx(EDIFACT_ENCODATION)] THEN ASCII_ENCODATION
       ELSE IF \/ ic[Idx(BASE256_ENCODATION)] < a
               \/ (mins[Idx(C40_ENCODATION)] + mins[Idx(TEXT_ENCODATION)]
                   + mins[Idx(X12_ENCODATION)] + mins[Idx(EDIFACT_ENCODATION)]) = 0
            THEN BASE256_ENCODATION
       ELSE IF minCount = 1 /\ mins[Idx(EDIFACT_ENCODATION)] > 0 THEN EDIFACT_ENCODATION
       ELSE IF minCount = 1 /\ mins[Idx(TEXT_ENCODATION)] > 0 THEN TEXT_ENCODATION
       ELSE IF minCount = 1 /\ mins[Idx(X12_ENCODATION)] > 0 THEN X12_ENCODATION
       ELSE IF C40Favoured(ic) /\ ic[Idx(C40_ENCODATION)] < ic[Idx(X12_ENCODATION)]
            THEN C40_ENCODATION
       ELSE IF C40Favoured(ic) /\ ic[Idx(C40_ENCODATION)] = ic[Idx(X12_ENCODATION)]
            THEN X12Scan(msg, startpos + charsProcessed + 1)
       ELSE -1

\* The loop of the look-ahead.  The counts after a character are bound by a
\* set constructor, so that they are computed once for each character.
RECURSIVE LookAheadLoop(_, _, _, _)
LookAheadLoop(msg, startpos, charsProcessed, cc) ==
    IF startpos + charsProcessed = Len(msg) THEN StepK(cc)
    ELSE LET c == ToChar(msg[startpos + charsProcessed + 1])
             n == charsProcessed + 1
             After(cc2) ==
                 LET r == IF n >= 4 THEN StepR(cc2, msg, startpos, n) ELSE -1
                 IN IF r >= 0 THEN r ELSE LookAheadLoop(msg, startpos, n, cc2)
         IN CHOOSE m \in {After(cc2) : cc2 \in {UpdateCharCounts(cc, c)}} : TRUE

LookAheadTest(msg, startpos, currentMode) ==
    IF startpos >= Len(msg) THEN currentMode
    ELSE LookAheadLoop(msg, startpos, 0, InitialCharCounts(currentMode))

-----------------------------------------------------------------------------
(* The symbol catalog and the encoder context (DMEncoderContext.h and       *)
(* DMSymbolInfo, which the encoder includes).                               *)

Sym(r, c, w, h) == [rect |-> r, cap |-> c, width |-> w, height |-> h]

\* The ECC200 symbols in the catalog's order of increasing capacity.
Symbols ==
    << Sym(FALSE, 3, 10, 10), Sym(FALSE, 5, 12, 12), Sym(TRUE, 5, 18, 8),
       Sym(FALSE, 8, 14, 14), Sym(TRUE, 10, 32, 8), Sym(FALSE, 12, 16, 16),
       Sym(TRUE, 16, 26, 12), Sym(FALSE, 18, 18, 18), Sym(FALSE, 22, 20, 20),
       Sym(TRUE, 22, 36, 12), Sym(FALSE, 30, 22, 22), Sym(TRUE, 32, 36, 16),
       Sym(FALSE, 36, 24, 24), Sym(FALSE, 44, 26, 26), Sym(TRUE, 49, 48, 16),
       Sym(FALSE, 62, 32, 32), Sym(FALSE, 86, 36, 36), Sym(FALSE, 114, 40, 40),
       Sym(FALSE, 144, 44, 44), Sym(FALSE, 174, 48, 48), Sym(FALSE, 204, 52, 52),
       Sym(FALSE, 280, 64, 64), Sym(FALSE, 368, 72, 72), Sym(FALSE, 456, 80, 80),
       Sym(FALSE, 576, 88, 88), Sym(FALSE, 696, 96, 96), Sym(FALSE, 816, 104, 104),
       Sym(FALSE, 1050, 120, 120), Sym(FALSE, 1304, 132, 132),
       Sym(FALSE, 1558, 144, 144) >>

Feasible(i, n, ctx) ==
    LET s == Symbols[i]
    IN /\ ~(ctx.shape = "SQUARE" /\ s.rect)
       /\ ~(ctx.shape = "RECTANGLE" /\ ~s.rect)
       /\ ~(ctx.maxWidth >= 0 /\ ctx.maxHeight >= 0
            /\ (s.width > ctx.maxWidth \/ s.height > ctx.maxHeight))
       /\ ~(ctx.minWidth >= 0 /\ ctx.minHeight >= 0
            /\ (s.width < ctx.minWidth \/ s.height < ctx.minHeight))
       /\ n <= s.cap

\* The first symbol of the catalog that fits, 0 when none does.
Lookup(n, ctx) ==
    LET fit == {i \in 1..Len(Symbols) : Feasible(i, n, ctx)}
    IN IF fit = {} THEN 0 ELSE CHOOSE i \in fit : \A j \in fit : i <= j

\* updateSymbolInfo: the symbol is looked up again only when none is held or
\* the held one is too small.  symbolInfo = 0 afterwards: no symbol fits.
UpdateSymbolInfo(ctx, len) ==
    IF ctx.symbolInfo = 0 \/ len > Symbols[ctx.symbolInfo].cap
    THEN [ctx EXCEPT !.symbolInfo = Lookup(len, ctx)]
    ELSE ctx

DataCapacity(ctx) == Symbols[ctx.symbolInfo].cap

ResetSymbolInfo(ctx) == [ctx EXCEPT !.symbolInfo = 0]

AddCodeword(ctx, cw) == [ctx EXCEPT !.codewords = Append(@, cw)]

CodewordCount(ctx) == Len(ctx.codewords)

SetCurrentPos(ctx, p) == [ctx EXCEPT !.pos = p]

SetNewEncoding(ctx, e) == [ctx EXCEPT !.newEncoding = e]

TotalMessageCharCount(ctx) == Len(ctx.msg) - ctx.skipAtEnd

HasMoreCharacters(ctx) == ctx.pos < TotalMessageCharCount(ctx)

RemainingCharacters(ctx) == TotalMessageCharCount(ctx) - ctx.pos

\* currentChar and nextChar give the octet at the cursor as an int 0..255.
CurrentChar(ctx) == ctx.msg[ctx.pos + 1]

NextChar(ctx) == ctx.msg[ctx.pos + 2]

NewContext(bytes, shape, minW, minH, maxW, maxH) ==
    [msg |-> bytes, shape |-> shape, minWidth |-> minW, minHeight |-> minH,
     maxWidth |-> maxW, maxHeight |-> maxH, codewords |-> <<>>, pos |-> 0,
     newEncoding |-> -1, symbolInfo |-> 0, skipAtEnd |-> 0]

\* TextEncoder::GetBytes for ISO 8859-1: one octet per character, and no
\* octets (the call fails) when a character is above 255.
CanTranscode(w) == \A i \in 1..Len(w) : w[i] <= 255

-----------------------------------------------------------------------------
(* ASCII compactor *)

RECURSIVE DetermineConsecutiveDigitCount(_, _)
DetermineConsecutiveDigitCount(msg, startpos) ==
    IF startpos < Len(msg) /\ IsDigit(ToChar(msg[startpos + 1]))
    THEN 1 + DetermineConsecutiveDigitCount(msg, startpos + 1)
    ELSE 0

\* A variant of EncodeASCIIDigits with the two digits exchanged; the codeword
\* of a digit pair depends on their order.
EncodeASCIIDigitsSwapped(digit1, digit2) ==
    IF IsDigit(digit1) /\ IsDigit(digit2)
    THEN (digit2 - 48) * 10 + (digit1 - 48) + 130
    ELSE 63

EncodeASCIIDigits(digit1, digit2) ==
    IF IsDigit(digit1) /\ IsDigit(digit2)
    THEN (digit1 - 48) * 10 + (digit2 - 48) + 130
    ELSE 63

\* A variant of EncodeASCII that returns with nothing done when the look-ahead
\* prefers another mode: no latch is appended and no mode is asked for, so
\* the driver calls it again at the same cursor.
EncodeASCIIWithoutLatch(ctx) ==
    IF DetermineConsecutiveDigitCount(ctx.msg, ctx.pos) >= 2
    THEN SetCurrentPos(AddCodeword(ctx, EncodeASCIIDigits(CurrentChar(ctx), NextChar(ctx))),
                       ctx.pos + 2)
    ELSE IF LookAheadTest(ctx.msg, ctx.pos, ASCII_ENCODATION) # ASCII_ENCODATION
    THEN ctx
    ELSE IF IsExtendedASCII(CurrentChar(ctx))
    THEN SetCurrentPos(AddCodeword(AddCodeword(ctx, UPPER_SHIFT), CurrentChar(ctx) - 128 + 1),
                       ctx.pos + 1)
    ELSE SetCurrentPos(AddCodeword(ctx, CurrentChar(ctx) + 1), ctx.pos + 1)

\* EncodeASCII: the context it leaves.
EncodeASCII(ctx) ==
    LET n == DetermineConsecutiveDigitCount(ctx.msg, ctx.pos)
    IN IF n >= 2
       THEN SetCurrentPos(AddCodeword(ctx, EncodeASCIIDigits(CurrentChar(ctx), NextChar(ctx))),
                          ctx.pos + 2)
       ELSE LET c == CurrentChar(ctx)
                newMode == LookAheadTest(ctx.msg, ctx.pos, ASCII_ENCODATION)
            IN IF newMode # ASCII_ENCODATION
               THEN SetNewEncoding(AddCodeword(ctx, LATCHES[Idx(newMode)]), newMode)
               ELSE IF IsExtendedASCII(c)
               THEN SetCurrentPos(AddCodeword(AddCodeword(ctx, UPPER_SHIFT), c - 128 + 1),
                                  ctx.pos + 1)
               ELSE SetCurrentPos(AddCodeword(ctx, c + 1), ctx.pos + 1)

-----------------------------------------------------------------------------
(* C40 and Text compactors.  An EncodeChar gives the values it appends;     *)
(* <<-1>> stands for the invalid_argument it throws.                        *)

Illegal == <<-1>>

\* C40Encoder::EncodeChar(char c, ...): c is the char converted to int.
RECURSIVE C40EncodeChar(_)
C40EncodeChar(c) ==
    IF c = 32 THEN <<3>>
    ELSE IF c >= 48 /\ c <= 57 THEN <<c - 48 + 4>>
    ELSE IF c >= 65 /\ c <= 90 THEN <<c - 65 + 14>>
    ELSE IF c >= 0 /\ c <= 31 THEN <<0, c>>
    ELSE IF c >= 33 /\ c <= 47 THEN <<1, c - 33>>
    ELSE IF c >= 58 /\ c <= 64 THEN <<1, c - 58 + 15>>
    ELSE IF c >= 91 /\ c <= 95 THEN <<1, c - 91 + 22>>
    ELSE IF c >= 96 /\ c <= 127 THEN <<2, c - 96>>
    ELSE IF c >= ToChar(128)
    THEN LET rest == C40EncodeChar(ToChar(c - 128))
         IN IF rest = Illegal THEN Illegal ELSE <<1, 30>> \o rest
    ELSE Illegal

\* DMTextEncoder::EncodeChar(int c, ...).
RECURSIVE TextEncodeChar(_)
TextEncodeChar(c) ==
    IF c = 32 THEN <<3>>
    ELSE IF c >= 48 /\ c <= 57 THEN <<c - 48 + 4>>
    ELSE IF c >= 97 /\ c <= 122 THEN <<c - 97 + 14>>
    ELSE IF c >= 0 /\ c <= 31 THEN <<0, c>>
    ELSE IF c >= 33 /\ c <= 47 THEN <<1, c - 33>>
    ELSE IF c >= 58 /\ c <= 64 THEN <<1, c - 58 + 15>>
    ELSE IF c >= 91 /\ c <= 95 THEN <<1, c - 91 + 22>>
    ELSE IF c = 96 THEN <<2, c - 96>>
    ELSE IF c >= 65 /\ c <= 90 THEN <<2, c - 65 + 1>>
    ELSE IF c >= 123 /\ c <= 127 THEN <<2, c - 123 + 27>>
    ELSE IF c >= ToChar(128)
    THEN LET rest == TextEncodeChar(ToChar(c - 128))
         IN IF rest = Illegal THEN Illegal ELSE <<1, 30>> \o rest
    ELSE Illegal

\* The encodeChar EncodeC40 is given: C40's takes a char, Text's an int.
EncodeCharOf(mode, c) ==
    IF mode = TEXT_ENCODATION THEN TextEncodeChar(c) ELSE C40EncodeChar(ToChar(c))

\* The encodingMode EncodeC40 is given by EncodeC40(context) and by
\* EncodeText(context).
LookAheadModeOf(mode) == C40_ENCODATION

\* A variant of EncodeToCodewords without the + 1 of the packed value; the
\* codewords of a triple depend on it.
EncodeToCodewordsNoOffset(sb, startPos) ==
    <<((1600 * sb[startPos + 1]) + (40 * sb[startPos + 2]) + sb[startPos + 3]) \div 256,
      ((1600 * sb[startPos + 1]) + (40 * sb[startPos + 2]) + sb[startPos + 3]) % 256>>

\* C40Encoder::EncodeToCodewords: the two codewords of the triple at startPos.
EncodeToCodewords(sb, startPos) ==
    LET c1 == sb[startPos + 1]
        c2 == sb[startPos + 2]
        c3 == sb[startPos + 3]
        v == (1600 * c1) + (40 * c2) + c3 + 1
    IN <<v \div 256, v % 256>>

\* while (buffer.length() >= 3) WriteNextTriplet(context, buffer):
\* the codewords written and the buffer left.
RECURSIVE TripletCodewords(_)
TripletCodewords(buf) ==
    IF Len(buf) >= 3
    THEN EncodeToCodewords(buf, 0) \o TripletCodewords(SubSeq(buf, 4, Len(buf)))
    ELSE <<>>

TripletRest(buf) == SubSeq(buf, Len(buf) - (Len(buf) % 3) + 1, Len(buf))

AddCodewords(ctx, cws) == [ctx EXCEPT !.codewords = @ \o cws]

\* What a compactor step hands back: the context it leaves, its buffer, and
\* the exception it threw ("none" when it returned).
Ret(ctx, buf, err) == [ctx |-> ctx, buf |-> buf, err |-> err]

\* What BacktrackOneCharacter hands back: also the lastCharSize it returns.
RetB(ctx, buf, err, lcs) == [ctx |-> ctx, buf |-> buf, err |-> err, lcs |-> lcs]

\* Lines 426-429 of BacktrackOneCharacter, the cursor moved back already:
\* currentChar is msg.at(pos), and EncodeChar is C40Encoder's.
BacktrackReencode(ctx, buf, lcs) ==
    IF ctx.pos < 0 THEN RetB(ctx, buf, "OutOfRange", lcs)
    ELSE IF C40EncodeChar(ToChar(CurrentChar(ctx))) = Illegal
    THEN RetB(ctx, buf, "IllegalCharacter", lcs)
    ELSE RetB(ResetSymbolInfo(ctx), buf, "none",
              Len(C40EncodeChar(ToChar(CurrentChar(ctx)))))

\* A variant of BacktrackOneCharacter that takes the cursor back by the
\* number of values in the buffer, as the rewind of X12 does; the cursor
\* staying within the run depends on a backtrack going back one character.
BacktrackOneCharacterRewinding(ctx, buf, lcs) ==
    IF lcs > Len(buf) THEN RetB(ctx, buf, "LengthError", lcs)
    ELSE BacktrackReencode(SetCurrentPos(ctx, ctx.pos - Len(buf)),
                           SubSeq(buf, 1, Len(buf) - lcs), lcs)

\* A variant of BacktrackOneCharacter that also takes back the last codeword
\* of the context; the codewords already emitted depend on a backtrack
\* touching the buffer only.
BacktrackOneCharacterTruncating(ctx, buf, lcs) ==
    IF lcs > Len(buf) THEN RetB(ctx, buf, "LengthError", lcs)
    ELSE BacktrackReencode(
             SetCurrentPos([ctx EXCEPT !.codewords = SubSeq(@, 1, Len(@) - 1)],
                           ctx.pos - 1),
             SubSeq(buf, 1, Len(buf) - lcs), lcs)

\* BacktrackOneCharacter.  buffer.size() - lastCharSize is unsigned: when it
\* would be negative, resize throws length_error.
BacktrackOneCharacter(ctx, buf, lcs) ==
    IF lcs > Len(buf) THEN RetB(ctx, buf, "LengthError", lcs)
    ELSE BacktrackReencode(SetCurrentPos(ctx, ctx.pos - 1),
                           SubSeq(buf, 1, Len(buf) - lcs), lcs)

\* if (cond) context.addCodeword(C40_UNLATCH);
UnlatchIf(ctx, cond) == IF cond THEN AddCodeword(ctx, C40_UNLATCH) ELSE ctx

\* while (buffer.length() >= 3) WriteNextTriplet(context, buffer);
WriteTriplets(ctx, buf) == AddCodewords(ctx, TripletCodewords(buf))

\* A variant of C40HandleEODCases that, for rest = 0, unlatches only when
\* characters remain; the unlatch before the padding depends on the test
\* of available.
C40HandleEODCasesNoAvailable(ctx, buf, curCodewordCount) ==
    IF ctx.symbolInfo = 0 THEN Ret(ctx, buf, "NoFittingSymbol")
    ELSE IF (Len(buf) % 3) = 2
    THEN Ret(SetNewEncoding(UnlatchIf(WriteTriplets(ctx, Append(buf, 0)),
                                      HasMoreCharacters(ctx)),
                            ASCII_ENCODATION),
             TripletRest(Append(buf, 0)), "none")
    ELSE IF DataCapacity(ctx) - curCodewordCount = 1 /\ (Len(buf) % 3) = 1
    THEN Ret(SetNewEncoding(SetCurrentPos(UnlatchIf(WriteTriplets(ctx, buf),
                                                    HasMoreCharacters(ctx)),
                                          ctx.pos - 1),
                            ASCII_ENCODATION),
             TripletRest(buf), "none")
    ELSE IF (Len(buf) % 3) = 0
    THEN Ret(SetNewEncoding(UnlatchIf(WriteTriplets(ctx, buf), HasMoreCharacters(ctx)),
                            ASCII_ENCODATION),
             TripletRest(buf), "none")
    ELSE Ret(ctx, buf, "InternalInvariant")

\* C40Encoder::HandleEOD from line 460 on: ctx is the context
\* updateSymbolInfo(curCodewordCount) left.
C40HandleEODCases(ctx, buf, curCodewordCount) ==
    IF ctx.symbolInfo = 0 THEN Ret(ctx, buf, "NoFittingSymbol")
    ELSE IF (Len(buf) % 3) = 2
    THEN Ret(SetNewEncoding(UnlatchIf(WriteTriplets(ctx, Append(buf, 0)),
                                      HasMoreCharacters(ctx)),
                            ASCII_ENCODATION),
             TripletRest(Append(buf, 0)), "none")
    ELSE IF DataCapacity(ctx) - curCodewordCount = 1 /\ (Len(buf) % 3) = 1
    THEN Ret(SetNewEncoding(SetCurrentPos(UnlatchIf(WriteTriplets(ctx, buf),
                                                    HasMoreCharacters(ctx)),
                                          ctx.pos - 1),
                            ASCII_ENCODATION),
             TripletRest(buf), "none")
    ELSE IF (Len(buf) % 3) = 0
    THEN Ret(SetNewEncoding(UnlatchIf(WriteTriplets(ctx, buf),
                                      \/ DataCapacity(ctx) - curCodewordCount > 0
                                      \/ HasMoreCharacters(ctx)),
                            ASCII_ENCODATION),
             TripletRest(buf), "none")
    ELSE Ret(ctx, buf, "InternalInvariant")

\* C40Encoder::HandleEOD.
C40HandleEOD(ctx, buf) ==
    C40HandleEODCases(UpdateSymbolInfo(ctx, CodewordCount(ctx) + (Len(buf) \div 3) * 2),
                      buf, CodewordCount(ctx) + (Len(buf) \div 3) * 2)

-----------------------------------------------------------------------------
(* X12 compactor *)

X12EncodeChar(c) ==
    IF c = 13 THEN <<0>>
    ELSE IF c = 42 THEN <<1>>
    ELSE IF c = 62 THEN <<2>>
    ELSE IF c = 32 THEN <<3>>
    ELSE IF c >= 48 /\ c <= 57 THEN <<c - 48 + 4>>
    ELSE IF c >= 65 /\ c <= 90 THEN <<c - 65 + 14>>
    ELSE Illegal

\* Lines 644-646.
X12DefaultEncoding(ctx) ==
    IF ctx.newEncoding < 0 THEN SetNewEncoding(ctx, ASCII_ENCODATION) ELSE ctx

\* Lines 641-643, the cursor moved back already.
X12Unlatch(ctx, avail) ==
    IF \/ RemainingCharacters(ctx) > 1
       \/ avail > 1
       \/ RemainingCharacters(ctx) # avail
    THEN AddCodeword(ctx, X12_UNLATCH)
    ELSE ctx

\* X12Encoder::HandleEOD from line 639 on: ctx is the context
\* updateSymbolInfo(codewordCount) left.
X12HandleEODCases(ctx, buf) ==
    IF ctx.symbolInfo = 0 THEN Ret(ctx, buf, "NoFittingSymbol")
    ELSE Ret(X12DefaultEncoding(X12Unlatch(SetCurrentPos(ctx, ctx.pos - Len(buf)),
                                           DataCapacity(ctx) - CodewordCount(ctx))),
             buf, "none")

\* X12Encoder::HandleEOD run on the context it is given.
X12HandleEOD(ctx, buf) ==
    X12HandleEODCases(UpdateSymbolInfo(ctx, CodewordCount(ctx)), buf)

\* The caller's context after HandleEOD(context, buffer) returned r:
\* HandleEOD takes its EncoderContext by value, so it worked on a copy.
X12CallHandleEOD(ctx, r) == ctx

-----------------------------------------------------------------------------
(* EDIFACT compactor *)

EdifactEncodeChar(c) ==
    IF c >= 32 /\ c <= 63 THEN <<c>>
    ELSE IF c >= 64 /\ c <= 94 THEN <<c - 64>>
    ELSE Illegal

\* int v = (c1 << 18) + (c2 << 12) + (c3 << 6) + c4 for a buffer of 1..4
\* values, the missing ones 0.
EdifactPack(sb) ==
    (sb[1] * 262144)
    + ((IF Len(sb) >= 2 THEN sb[2] ELSE 0) * 4096)
    + ((IF Len(sb) >= 3 THEN sb[3] ELSE 0) * 64)
    + (IF Len(sb) >= 4 THEN sb[4] ELSE 0)

\* EdifactEncoder::EncodeToCodewords(sb, 0) for a buffer of 1..4 values.
EdifactEncodeToCodewords(sb) ==
    <<(EdifactPack(sb) \div 65536) % 256>>
    \o (IF Len(sb) >= 2 THEN <<(EdifactPack(sb) \div 256) % 256>> ELSE <<>>)
    \o (IF Len(sb) >= 3 THEN <<EdifactPack(sb) % 256>> ELSE <<>>)

\* What the try block of HandleEOD hands back; done: it ran to its end
\* (FALSE: it returned early or threw).
RetT(ctx, err, done) == [ctx |-> ctx, err |-> err, done |-> done]

\* Lines 758-766: restInAscii decided.
EdifactRest(ctx, buf, restInAscii) ==
    IF restInAscii
    THEN RetT(SetCurrentPos(ResetSymbolInfo(ctx), ctx.pos - (Len(buf) - 1)), "none", TRUE)
    ELSE RetT(AddCodewords(ctx, EdifactEncodeToCodewords(buf)), "none", TRUE)

\* A variant of EdifactAvailable that emits the packed codewords only when
\* more than 3 codewords are available; which tails go to ASCII depends on
\* the limit.
EdifactAvailableAbove3(ctx, buf, restInAscii) ==
    IF ctx.symbolInfo = 0 THEN RetT(ctx, "NoFittingSymbol", FALSE)
    ELSE IF DataCapacity(ctx) - CodewordCount(ctx) > 3
    THEN IF UpdateSymbolInfo(ctx, CodewordCount(ctx)
                                  + Len(EdifactEncodeToCodewords(buf))).symbolInfo = 0
         THEN RetT(ResetSymbolInfo(ctx), "NoFittingSymbol", FALSE)
         ELSE EdifactRest(UpdateSymbolInfo(ctx, CodewordCount(ctx)
                                                + Len(EdifactEncodeToCodewords(buf))),
                          buf, FALSE)
    ELSE EdifactRest(ctx, buf, restInAscii)

\* Lines 750-756: ctx is the context updateSymbolInfo(codewordCount +
\* restChars) left.
EdifactAvailable(ctx, buf, restInAscii) ==
    IF ctx.symbolInfo = 0 THEN RetT(ctx, "NoFittingSymbol", FALSE)
    ELSE IF DataCapacity(ctx) - CodewordCount(ctx) >= 3
    THEN IF UpdateSymbolInfo(ctx, CodewordCount(ctx)
                                  + Len(EdifactEncodeToCodewords(buf))).symbolInfo = 0
         THEN RetT(ResetSymbolInfo(ctx), "NoFittingSymbol", FALSE)
         ELSE EdifactRest(UpdateSymbolInfo(ctx, CodewordCount(ctx)
                                                + Len(EdifactEncodeToCodewords(buf))),
                          buf, FALSE)
    ELSE EdifactRest(ctx, buf, restInAscii)

\* Lines 739-766.
EdifactEncodeRest(ctx, buf) ==
    IF Len(buf) > 4 THEN RetT(ctx, "IllegalCharacter", FALSE)
    ELSE IF Len(buf) - 1 <= 2
    THEN EdifactAvailable(UpdateSymbolInfo(ctx, CodewordCount(ctx) + Len(buf) - 1), buf,
                          ~HasMoreCharacters(ctx))
    ELSE EdifactRest(ctx, buf, FALSE)

\* Lines 732-737: only the unlatch value is buffered; ctx is the context
\* updateSymbolInfo(codewordCount) left.
EdifactOnlyUnlatch(ctx, buf) ==
    IF ctx.symbolInfo = 0 THEN RetT(ctx, "NoFittingSymbol", FALSE)
    ELSE IF RemainingCharacters(ctx) = 0 /\ DataCapacity(ctx) - CodewordCount(ctx) <= 2
    THEN RetT(ctx, "none", FALSE)
    ELSE EdifactEncodeRest(ctx, buf)

\* The try block of HandleEOD.
EdifactHandleEODTry(ctx, buf) ==
    IF Len(buf) = 0 THEN RetT(ctx, "none", FALSE)
    ELSE IF Len(buf) = 1
    THEN EdifactOnlyUnlatch(UpdateSymbolInfo(ctx, CodewordCount(ctx)), buf)
    ELSE EdifactEncodeRest(ctx, buf)

\* After the try block: the catch block and line 772 set newEncoding; an
\* early return sets nothing.
EdifactAfterTry(t, buf) ==
    IF t.err # "none" \/ t.done
    THEN Ret(SetNewEncoding(t.ctx, ASCII_ENCODATION), buf, t.err)
    ELSE Ret(t.ctx, buf, "none")

\* EdifactEncoder::HandleEOD.
EdifactHandleEOD(ctx, buf) == EdifactAfterTry(EdifactHandleEODTry(ctx, buf), buf)

-----------------------------------------------------------------------------
(* Base 256 compactor *)

Randomize255State(ch, codewordPosition) ==
    LET pseudoRandom == ((149 * codewordPosition) % 255) + 1
    IN IF ch + pseudoRandom <= 255 THEN ch + pseudoRandom ELSE ch + pseudoRandom - 256

\* A variant of B256WithLength that writes one length byte up to a dataCount
\* of 250; the prefix of a run of 250 octets depends on the limit.
B256WithLengthFrom251(buf, dataCount) ==
    IF dataCount <= 250 THEN [buf EXCEPT ![1] = ToChar(dataCount)]
    ELSE IF dataCount > 250 /\ dataCount <= 1555
    THEN <<ToChar((dataCount \div 250) + 249), ToChar(dataCount % 250)>>
         \o SubSeq(buf, 2, Len(buf))
    ELSE buf

\* The buffer (whose first element is the placeholder) with the length field
\* EncodeBase256 writes for a dataCount of at most 1555.
B256WithLength(buf, dataCount) ==
    IF dataCount <= 249 THEN [buf EXCEPT ![1] = ToChar(dataCount)]
    ELSE IF dataCount > 249 /\ dataCount <= 1555
    THEN <<ToChar((dataCount \div 250) + 249), ToChar(dataCount % 250)>>
         \o SubSeq(buf, 2, Len(buf))
    ELSE buf

\* Lines 851-853.
B256Emit(ctx, buf) ==
    Ret(AddCodewords(ctx, [i \in 1..Len(buf) |->
                              Randomize255State(buf[i], CodewordCount(ctx) + i)]),
        buf, "none")

\* A variant of B256Length that refuses every run above 1555 octets, a
\* length field written or not; the fate of the 1556-octet run that fills
\* the largest symbol depends on the difference.
B256LengthStrict(ctx, buf, currentSize) ==
    IF ctx.symbolInfo = 0 THEN Ret(ctx, buf, "NoFittingSymbol")
    ELSE IF Len(buf) - 1 > 1555 THEN Ret(ctx, buf, "MessageTooLong")
    ELSE IF HasMoreCharacters(ctx) \/ (DataCapacity(ctx) - currentSize) > 0
    THEN B256Emit(ctx, B256WithLength(buf, Len(buf) - 1))
    ELSE B256Emit(ctx, buf)

\* Lines 838-853: ctx is the context updateSymbolInfo(currentSize) left.
B256Length(ctx, buf, currentSize) ==
    IF ctx.symbolInfo = 0 THEN Ret(ctx, buf, "NoFittingSymbol")
    ELSE IF HasMoreCharacters(ctx) \/ (DataCapacity(ctx) - currentSize) > 0
    THEN IF Len(buf) - 1 > 1555 THEN Ret(ctx, buf, "MessageTooLong")
         ELSE B256Emit(ctx, B256WithLength(buf, Len(buf) - 1))
    ELSE B256Emit(ctx, buf)

\* EncodeBase256 after its loop.
EncodeBase256End(ctx, buf) ==
    B256Length(UpdateSymbolInfo(ctx, CodewordCount(ctx) + (Len(buf) - 1) + 1), buf,
               CodewordCount(ctx) + (Len(buf) - 1) + 1)

-----------------------------------------------------------------------------
(* HighLevelEncoder::Encode *)

StartsWith(s, ss) == Len(s) > Len(ss) /\ SubSeq(s, 1, Len(ss)) = ss

EndsWith(s, ss) == Len(s) > Len(ss) /\ SubSeq(s, Len(s) - Len(ss) + 1, Len(s)) = ss

\* The context after the macro test of Encode.
MacroStart(ctx, msg) ==
    IF StartsWith(msg, MACRO_05_HEADER) /\ EndsWith(msg, MACRO_TRAILER)
    THEN [AddCodeword(ctx, MACRO_05) EXCEPT !.skipAtEnd = 2, !.pos = Len(MACRO_05_HEADER)]
    ELSE IF StartsWith(msg, MACRO_06_HEADER) /\ EndsWith(msg, MACRO_TRAILER)
    THEN [AddCodeword(ctx, MACRO_06) EXCEPT !.skipAtEnd = 2, !.pos = Len(MACRO_06_HEADER)]
    ELSE ctx

\* The padding Encode appends to cws up to capacity.
RECURSIVE PadTo(_, _)
PadTo(cws, capacity) ==
    IF Len(cws) < capacity
    THEN PadTo(Append(cws, Randomize253State(PAD, Len(cws) + 1)), capacity)
    ELSE cws

\* Lines 924-926: the unlatch '\xfe' of a mode other than ASCII and Base 256
\* when the symbol has room.
FinalUnlatch(cws, capacity, mode) ==
    IF Len(cws) < capacity /\ mode # ASCII_ENCODATION /\ mode # BASE256_ENCODATION
    THEN Append(cws, ToChar(254))
    ELSE cws

\* A variant of FinalPadding that appends the first PAD only; the length of
\* the output depends on the padding loop.
FinalPaddingOnce(cws, capacity) ==
    IF Len(cws) < capacity THEN Append(cws, PAD) ELSE cws

\* Lines 928-934: the padding.
FinalPadding(cws, capacity) ==
    IF Len(cws) < capacity THEN PadTo(Append(cws, PAD), capacity) ELSE cws

\* Lines 920-934: the codewords after the unlatch and the padding, for the
\* context updateSymbolInfo(len) left and the driver's mode.
FinalCodewords(ctx, mode) ==
    FinalPadding(FinalUnlatch(ctx.codewords, DataCapacity(ctx), mode), DataCapacity(ctx))

\* What a step leaves in hist: its name, the cursor at which the compactor
\* run of the current pass of the driver loop began, the furthest cursor at
\* which any pass began (where the passes before it left the cursor), and
\* the codeword count at which the current pass began.
Hist(step) ==
    IF step \in {"EncodeASCII", "Dispatch"}
    THEN [step |-> step,
          runStart |-> context.pos,
          far |-> IF context.pos > hist.far THEN context.pos ELSE hist.far,
          count |-> Len(context.codewords)]
    ELSE [step |-> step, runStart |-> hist.runStart, far |-> hist.far,
          count |-> hist.count]

\* A variant of Fail that hands the caller the codewords gathered so far;
\* the untouched output of a failed call depends on Fail leaving it alone.
FailWithOutput(kind, ctx, step) ==
    /\ pc' = "error"
    /\ error' = kind
    /\ context' = ctx
    /\ hist' = Hist(step)
    /\ output' = ctx.codewords
    /\ UNCHANGED <<call, charSigned, encodingMode, buffer, lastCharSize, available>>

\* An exception leaves Encode: nothing is written to the caller's vector.
Fail(kind, ctx, step) ==
    /\ pc' = "error"
    /\ error' = kind
    /\ context' = ctx
    /\ hist' = Hist(step)
    /\ UNCHANGED <<call, charSigned, encodingMode, buffer, lastCharSize, available, output>>

\* Lines 888-905: transcoding, the context, the macro test.
Start ==
    /\ pc = "start"
    /\ IF ~CanTranscode(call.text)
       THEN Fail("TranscodeError", context, "Start")
       ELSE /\ context' = MacroStart(NewContext(call.text, call.shape, call.minWidth,
                                                call.minHeight, call.maxWidth,
                                                call.maxHeight), call.text)
            /\ pc' = "loop"
            /\ hist' = Hist("Start")
            /\ UNCHANGED <<call, charSigned, encodingMode, buffer, lastCharSize,
                           available, output, error>>

\* One pass of the driver loop in ASCII mode: EncodeASCII.
AsciiStep ==
    /\ pc = "loop"
    /\ HasMoreCharacters(context)
    /\ encodingMode = ASCII_ENCODATION
    /\ context' = EncodeASCII(context)
    /\ pc' = "adopt"
    /\ hist' = Hist("EncodeASCII")
    /\ UNCHANGED <<call, charSigned, encodingMode, buffer, lastCharSize, available,
                   output, error>>

\* The driver loop calls the compactor of a mode other than ASCII, which
\* sets up its buffer.
Dispatch ==
    /\ pc = "loop"
    /\ HasMoreCharacters(context)
    /\ encodingMode # ASCII_ENCODATION
    /\ pc' = CASE encodingMode = C40_ENCODATION -> "c40"
               [] encodingMode = TEXT_ENCODATION -> "c40"
               [] encodingMode = X12_ENCODATION -> "x12"
               [] encodingMode = EDIFACT_ENCODATION -> "edifact"
               [] OTHER -> "b256"
    /\ buffer' = IF encodingMode = BASE256_ENCODATION THEN <<0>> ELSE <<>>
    /\ lastCharSize' = 0
    /\ available' = 0
    /\ hist' = Hist("Dispatch")
    /\ UNCHANGED <<call, charSigned, context, encodingMode, output, error>>

\* Lines 508-528 of a pass of EncodeC40's loop: ctx is the context
\* updateSymbolInfo(curCodewordCount) left, buf the buffer with the values
\* of the character, lcs their number.
C40AfterChar(ctx, buf, lcs, curCodewordCount) ==
    IF ctx.symbolInfo = 0 THEN Fail("NoFittingSymbol", ctx, "EncodeC40")
    ELSE /\ buffer' = buf
         /\ lastCharSize' = lcs
         /\ available' = DataCapacity(ctx) - curCodewordCount
         /\ hist' = Hist("EncodeC40")
         /\ UNCHANGED <<call, charSigned, encodingMode, output, error>>
         /\ IF ~HasMoreCharacters(ctx)
            THEN context' = ctx /\ pc' = "c40tail"
            ELSE IF /\ (Len(buf) % 3) = 0
                    /\ LookAheadTest(ctx.msg, ctx.pos, LookAheadModeOf(encodingMode))
                         # LookAheadModeOf(encodingMode)
            THEN /\ context' = SetNewEncoding(ctx, LookAheadTest(ctx.msg, ctx.pos,
                                                   LookAheadModeOf(encodingMode)))
                 /\ pc' = "c40eod"
            ELSE context' = ctx /\ pc' = "c40"

\* Lines 502-505: ctx is the context with the cursor moved on, vals the
\* values encodeChar appends.
C40Encoded(ctx, vals) ==
    IF vals = Illegal THEN Fail("IllegalCharacter", ctx, "EncodeC40")
    ELSE C40AfterChar(UpdateSymbolInfo(ctx, CodewordCount(ctx)
                                            + (Len(buffer \o vals) \div 3) * 2),
                      buffer \o vals, Len(vals),
                      CodewordCount(ctx) + (Len(buffer \o vals) \div 3) * 2)

\* One pass of EncodeC40's loop (lines 499-507 and 522-528); at the end of
\* the data it goes on to the tail adjustment.
C40Char ==
    /\ pc = "c40"
    /\ C40Encoded(SetCurrentPos(context, context.pos + 1),
                  EncodeCharOf(encodingMode, CurrentChar(context)))

\* A backtrack of the tail adjustment.
DoBacktrack(nextPc, step) ==
    LET r == BacktrackOneCharacter(context, buffer, lastCharSize)
    IN IF r.err # "none"
       THEN /\ Fail(r.err, r.ctx, step)
       ELSE /\ context' = r.ctx
            /\ buffer' = r.buf
            /\ lastCharSize' = r.lcs
            /\ pc' = nextPc
            /\ hist' = Hist(step)
            /\ UNCHANGED <<call, charSigned, encodingMode, available, output, error>>

\* Lines 510-515: at the end of the data, two values in the last triplet.
C40Tail ==
    /\ pc = "c40tail"
    /\ IF (Len(buffer) % 3) = 2 /\ (available < 2 \/ available > 2)
       THEN DoBacktrack("c40tailloop", "Backtrack")
       ELSE /\ pc' = "c40tailloop"
            /\ hist' = Hist("NoBacktrack")
            /\ UNCHANGED <<call, charSigned, context, encodingMode, buffer, lastCharSize,
                           available, output, error>>

TailLoopCondition ==
    /\ (Len(buffer) % 3) = 1
    /\ ((lastCharSize <= 3 /\ available # 1) \/ lastCharSize > 3)

\* Lines 516-518: one pass of the while loop.
C40TailBacktrack ==
    /\ pc = "c40tailloop"
    /\ TailLoopCondition
    /\ DoBacktrack("c40tailloop", "Backtrack")

\* Line 519: the while loop ends and EncodeC40 breaks out to HandleEOD.
C40TailBreak ==
    /\ pc = "c40tailloop"
    /\ ~TailLoopCondition
    /\ pc' = "c40eod"
    /\ hist' = Hist("Break")
    /\ UNCHANGED <<call, charSigned, context, encodingMode, buffer, lastCharSize,
                   available, output, error>>

\* The end of a compactor run: r is what its end-of-data handler returned.
Finish(r, step) ==
    IF r.err # "none"
    THEN Fail(r.err, r.ctx, step)
    ELSE /\ context' = r.ctx
         /\ buffer' = r.buf
         /\ pc' = "adopt"
         /\ hist' = Hist(step)
         /\ UNCHANGED <<call, charSigned, encodingMode, lastCharSize, available,
                        output, error>>

C40EOD ==
    /\ pc = "c40eod"
    /\ Finish(C40HandleEOD(context, buffer), "C40HandleEOD")

\* Lines 661-666 and the loop test: ctx is the context after the triplet was
\* written, stay whether the look-ahead keeps X12.
X12AfterChar(ctx, buf, stay) ==
    /\ buffer' = buf
    /\ hist' = Hist("EncodeX12")
    /\ UNCHANGED <<call, charSigned, encodingMode, lastCharSize, available, output, error>>
    /\ IF ~stay
       THEN /\ context' = SetNewEncoding(ctx, LookAheadTest(ctx.msg, ctx.pos, X12_ENCODATION))
            /\ pc' = "x12eod"
       ELSE /\ context' = ctx
            /\ pc' = IF HasMoreCharacters(ctx) THEN "x12" ELSE "x12eod"

\* Lines 656-660: ctx is the context with the cursor moved on, vals the
\* value EncodeChar appends.
X12Encoded(ctx, vals) ==
    IF vals = Illegal THEN Fail("IllegalCharacter", ctx, "EncodeX12")
    ELSE IF (Len(buffer \o vals) % 3) = 0
    THEN X12AfterChar(AddCodewords(ctx, EncodeToCodewords(buffer \o vals, 0)),
                      SubSeq(buffer \o vals, 4, Len(buffer \o vals)),
                      LookAheadTest(ctx.msg, ctx.pos, X12_ENCODATION) = X12_ENCODATION)
    ELSE X12AfterChar(ctx, buffer \o vals, TRUE)

\* One pass of EncodeX12's loop.
X12Char ==
    /\ pc = "x12"
    /\ X12Encoded(SetCurrentPos(context, context.pos + 1),
                  X12EncodeChar(CurrentChar(context)))

\* Line 668: HandleEOD(context, buffer).
X12EOD ==
    /\ pc = "x12eod"
    /\ LET r == X12HandleEOD(context, buffer)
       IN Finish(Ret(X12CallHandleEOD(context, r), buffer, r.err), "X12HandleEOD")

\* Lines 791-796 and the loop test: ctx is the context after the four values
\* were written, stay whether the look-ahead keeps EDIFACT.
EdifactAfterChar(ctx, buf, stay) ==
    /\ buffer' = buf
    /\ hist' = Hist("EncodeEdifact")
    /\ UNCHANGED <<call, charSigned, encodingMode, lastCharSize, available, output, error>>
    /\ IF ~stay
       THEN context' = SetNewEncoding(ctx, ASCII_ENCODATION) /\ pc' = "edifacteod"
       ELSE /\ context' = ctx
            /\ pc' = IF HasMoreCharacters(ctx) THEN "edifact" ELSE "edifacteod"

\* Lines 781-790: vals is the value EncodeChar appends, ctx the context
\* with the cursor moved on.
EdifactEncoded(ctx, vals) ==
    IF vals = Illegal THEN Fail("IllegalCharacter", context, "EncodeEdifact")
    ELSE IF Len(buffer \o vals) >= 4
    THEN EdifactAfterChar(AddCodewords(ctx, EdifactEncodeToCodewords(buffer \o vals)),
                          SubSeq(buffer \o vals, 5, Len(buffer \o vals)),
                          LookAheadTest(ctx.msg, ctx.pos, EDIFACT_ENCODATION)
                            = EDIFACT_ENCODATION)
    ELSE EdifactAfterChar(ctx, buffer \o vals, TRUE)

\* One pass of EncodeEdifact's loop.
EdifactChar ==
    /\ pc = "edifact"
    /\ EdifactEncoded(SetCurrentPos(context, context.pos + 1),
                      EdifactEncodeChar(CurrentChar(context)))

\* Lines 798-799: the unlatch value and HandleEOD.
EdifactEOD ==
    /\ pc = "edifacteod"
    /\ Finish(EdifactHandleEOD(context, Append(buffer, 31)), "EdifactHandleEOD")

\* The least element of a set of integers.
Least(S) == CHOOSE p \in S : \A q \in S : p <= q

\* The cursor at which the loop of EncodeBase256 ends (lines 822-833): the
\* first position after a character where the look-ahead leaves Base 256
\* or no character is left.
B256Stop(ctx) ==
    Least({p \in (ctx.pos + 1)..TotalMessageCharCount(ctx) :
              \/ p = TotalMessageCharCount(ctx)
              \/ LookAheadTest(ctx.msg, p, BASE256_ENCODATION) # BASE256_ENCODATION})

\* The context the loop leaves when it ends at the cursor stop: the mode the
\* look-ahead chose there is asked for when it is not Base 256.
B256LoopContext(ctx, stop) ==
    IF LookAheadTest(ctx.msg, stop, BASE256_ENCODATION) # BASE256_ENCODATION
    THEN SetNewEncoding(SetCurrentPos(ctx, stop),
                        LookAheadTest(ctx.msg, stop, BASE256_ENCODATION))
    ELSE SetCurrentPos(ctx, stop)

\* The buffer the loop leaves: each character passed is appended as a char.
B256LoopBuffer(ctx, buf, stop) ==
    buf \o [i \in 1..(stop - ctx.pos) |-> ToChar(ctx.msg[ctx.pos + i])]

\* The loop of EncodeBase256, all its passes.
Base256Char ==
    /\ pc = "b256"
    /\ context' = B256LoopContext(context, B256Stop(context))
    /\ buffer' = B256LoopBuffer(context, buffer, B256Stop(context))
    /\ pc' = "b256end"
    /\ hist' = Hist("EncodeBase256")
    /\ UNCHANGED <<call, charSigned, encodingMode, lastCharSize, available, output, error>>

\* Lines 834-853.
Base256End ==
    /\ pc = "b256end"
    /\ Finish(EncodeBase256End(context, buffer), "EncodeBase256")

\* Lines 915-918: the driver adopts the mode a compactor asked for.
Adopt ==
    /\ pc = "adopt"
    /\ IF context.newEncoding >= 0
       THEN /\ encodingMode' = context.newEncoding
            /\ context' = SetNewEncoding(context, -1)
       ELSE UNCHANGED <<encodingMode, context>>
    /\ pc' = "loop"
    /\ hist' = Hist("Adopt")
    /\ UNCHANGED <<call, charSigned, buffer, lastCharSize, available, output, error>>

\* Lines 922-936: ctx is the context updateSymbolInfo(len) left.
Finalized(ctx, len) ==
    IF ctx.symbolInfo = 0 THEN Fail("NoFittingSymbol", ctx, "Finalize")
    ELSE /\ context' = [ctx EXCEPT !.codewords = FinalCodewords(ctx, encodingMode)]
         /\ output' = FinalCodewords(ctx, encodingMode)
         /\ pc' = "done"
         /\ hist' = [step |-> "Finalize", len |-> len]
         /\ UNCHANGED <<call, charSigned, encodingMode, buffer, lastCharSize,
                        available, error>>

\* Lines 920-936: the symbol, the unlatch, the padding, the output.
Finalize ==
    /\ pc = "loop"
    /\ ~HasMoreCharacters(context)
    /\ Finalized(UpdateSymbolInfo(context, CodewordCount(context)), CodewordCount(context))

Next ==
    \/ Start
    \/ AsciiStep
    \/ Dispatch
    \/ C40Char
    \/ C40Tail
    \/ C40TailBacktrack
    \/ C40TailBreak
    \/ C40EOD
    \/ X12Char
    \/ X12EOD
    \/ EdifactChar
    \/ EdifactEOD
    \/ Base256Char
    \/ Base256End
    \/ Adopt
    \/ Finalize

-----------------------------------------------------------------------------
(* The calls the model runs *)

\* The longest of the messages taken in full over Alphabet.
MaxLen == 4

\* '1', 'A', 'a', CR and the extended octet 0xE9.
Alphabet == {49, 65, 97, 13, 233}

SeqsUpTo(S, n) == UNION {[1..k -> S] : k \in 0..n}

Call(text, shape, maxW, maxH) ==
    [text |-> text, shape |-> shape, minWidth |-> -1, minHeight |-> -1,
     maxWidth |-> maxW, maxHeight |-> maxH]

ShortCalls == {Call(t, "NONE", -1, -1) : t \in SeqsUpTo(Alphabet, MaxLen)}

\* The longest of the all-digit messages.
MaxDigits == 6

Digits == {48, 52, 57}

DigitCalls == {Call(t, "NONE", -1, -1) : t \in SeqsUpTo(Digits, MaxDigits)}

\* "[)>" RS "05" GS and "[)>" RS "06" GS, the macro headers as octets, and
\* RS EOT, the trailer.
Macro05Octets == <<91, 41, 62, 30, 48, 53, 29>>

Macro06Octets == <<91, 41, 62, 30, 48, 54, 29>>

TrailerOctets == <<30, 4>>

Foo == <<102, 111, 111>>

ABCDEF == <<65, 66, 67, 68, 69, 70>>

\* "ABC*DEF*GH"
X12Message == <<65, 66, 67, 42, 68, 69, 70, 42, 71, 72>>

\* Messages that take the driver through every compactor, its end of data
\* and its failures.
ScenarioTexts ==
    { ABCDEF,
      ABCDEF \o <<71>>,
      <<32, 32, 32, 32, 32, 32>>,
      <<32, 32, 32, 32, 32, 32, 32>>,
      <<66, 65, 32, 66, 66, 32, 66, 32, 32, 97>>,
      <<97, 32, 32, 97, 32, 97>>,
      <<98, 32, 32, 32, 32, 32>>,
      <<32, 32, 32, 32, 97, 32, 32>>,
      <<13, 13, 13, 13, 13, 13>>,
      X12Message,
      <<13, 65, 42, 65, 42, 42, 46, 42, 65, 65, 13, 65, 65, 42>>,
      <<32, 32, 32, 32, 94, 94, 94, 94>>,
      <<42, 94, 42, 66, 65, 66, 42, 65>>,
      <<46, 65, 46, 67, 49, 46, 51, 46, 88, 46, 88, 50, 46, 46>>,
      <<13, 233, 233, 13, 13>>,
      <<233, 233, 233, 33, 233, 233, 33>>,
      X12Message \o <<33, 33>>,
      <<65, 65, 65, 65, 65, 32, 32, 233>>,
      <<49, 49, 65, 32, 66, 65, 66, 49, 66, 177, 65>>,
      <<97, 97, 97, 97, 32, 32, 32, 193>>,
      <<97, 97, 97, 97, 49, 49, 49, 49, 97, 97, 97, 97, 97, 32, 32, 32, 65, 193>>,
      <<97, 97, 97, 97, 97, 97, 97, 97, 97>>,
      <<65, 65, 65, 65, 65, 65, 65, 65, 65>>,
      <<65, 65, 65, 65, 65, 65, 65, 65, 65, 65>>,
      <<65, 65, 65, 65, 65, 65, 65, 65, 65, 65, 13, 13>>,
      <<65, 65, 65, 65, 65, 65, 65, 65, 65, 65, 13, 97, 42>>,
      <<65, 42, 65, 42, 65, 42, 94, 94, 94, 94, 94>>,
      Macro05Octets \o Foo \o TrailerOctets,
      Macro06Octets \o Foo \o TrailerOctets,
      Macro05Octets \o TrailerOctets,
      MACRO_05_HEADER \o Foo \o MACRO_TRAILER,
      MACRO_06_HEADER \o Foo \o MACRO_TRAILER }

Shapes == {"NONE", "SQUARE", "RECTANGLE"}

\* The largest side allowed: none (-1), or that of a small symbol.
MaxSides == {-1, 12, 18}

ScenarioCalls == {Call(t, s, m, m) : t \in ScenarioTexts, s \in Shapes, m \in MaxSides}

\* A run of n extended octets.
Run(n) == [i \in 1..n |-> 233]

\* The lengths of Base 256 runs at the limits of the length field.
RunLengths == {249, 250, 1555, 1556, 1557}

\* What follows a run: nothing, or two digits.
RunTails == {<<>>, <<49, 49>>}

RunCalls == {Call(Run(n) \o t, "NONE", -1, -1) : n \in RunLengths, t \in RunTails}

Calls == ShortCalls \cup DigitCalls \cup ScenarioCalls \cup RunCalls

\* What the caller's vector holds before the call.
OutputBefore == <<0, 0>>

InitWith(calls) ==
    /\ call \in calls
    /\ charSigned \in BOOLEAN
    /\ context = NewContext(<<>>, "NONE", -1, -1, -1, -1)
    /\ encodingMode = ASCII_ENCODATION
    /\ pc = "start"
    /\ buffer = <<>>
    /\ lastCharSize = 0
    /\ available = 0
    /\ output = OutputBefore
    /\ error = "none"
    /\ hist = [step |-> "Init", runStart |-> 0, far |-> 0, count |-> 0]

Init == InitWith(Calls)

Spec == Init /\ [][Next]_vars

-----------------------------------------------------------------------------
(* Properties *)

\* The padding value the standard gives for the 1-based position p.
Pad253(p) ==
    LET t == 129 + ((149 * p) % 253) + 1
    IN IF t <= 254 THEN t ELSE t - 254

\* The output from position from on is padding: 129, then randomized pads.
PaddingFrom(from) ==
    \A p \in from..Len(output) : output[p] = IF p = from THEN 129 ELSE Pad253(p)

\* The position of the first padding codeword of a finished call: after the
\* len codewords of the loop and the unlatch of a mode that has one.
PadStart ==
    hist.len + 1
    + (IF hist.len < Len(output) /\ encodingMode \notin {ASCII_ENCODATION, BASE256_ENCODATION}
       THEN 1 ELSE 0)

\* C1: when Encode returns, the output is exactly as long as the capacity of
\* the symbol updateSymbolInfo(len) selects at the end of the driver loop,
\* and the context holds as many codewords.
C1_OutputLengthIsCapacity ==
    [][(pc = "loop" /\ pc' = "done")
       => /\ context'.symbolInfo
               = UpdateSymbolInfo(context, CodewordCount(context)).symbolInfo
          /\ CodewordCount(context) <= DataCapacity(context')
          /\ Len(output') = DataCapacity(context')
          /\ CodewordCount(context') = DataCapacity(context')]_vars

\* A call returned with more than one padding codeword.
C1_Witness == pc = "done" /\ Len(output) > hist.len + 1

\* C2: every codeword in the context is an integer in 0..255.
C2_CodewordsAreOctets ==
    \A i \in 1..Len(context.codewords) : context.codewords[i] \in 0..255

\* C3: the caller's vector is untouched until Encode returns, so a failed
\* call leaves it unchanged; a returned call has written the whole padded
\* codeword vector, as long as the symbol's capacity.
C3_NoPartialOutput ==
    /\ pc # "done" => output = OutputBefore
    /\ pc = "done" => output = context.codewords /\ Len(output) = DataCapacity(context)

\* A call failed after codewords had been gathered.
C3_Witness ==
    pc = "error" /\ error \in {"IllegalCharacter", "NoFittingSymbol", "MessageTooLong"}
    /\ Len(context.codewords) > 0

\* The message of the call is all digits and of even length 2k, k >= 1.
IsEvenDigitMessage ==
    /\ Len(call.text) >= 2
    /\ Len(call.text) % 2 = 0
    /\ \A i \in 1..Len(call.text) : call.text[i] \in 48..57

\* The codeword of the i-th pair of digits of the message.
PairCodeword(i) == 130 + 10 * (call.text[2 * i - 1] - 48) + (call.text[2 * i] - 48)

\* C4: for an all-digit message of even length 2k the driver stays in ASCII
\* mode, the codewords are the k pair codewords 130 + 10*d + d' and nothing
\* else, and the output after them is padding.
C4_DigitPairs ==
    (IsEvenDigitMessage /\ call.shape = "NONE" /\ call.maxWidth = -1)
    => /\ encodingMode = ASCII_ENCODATION
       /\ error = "none"
       /\ pc # "done" => Len(context.codewords) <= Len(call.text) \div 2
       /\ \A i \in 1..Len(context.codewords) :
            i <= Len(call.text) \div 2 => context.codewords[i] = PairCodeword(i)
       /\ pc = "done" => hist.len = Len(call.text) \div 2 /\ PaddingFrom(hist.len + 1)

\* A call returned for a message of six digits whose pairs are of two
\* different digits.
C4_Witness ==
    /\ pc = "done"
    /\ IsEvenDigitMessage
    /\ Len(call.text) = 6
    /\ call.text[1] # call.text[2]
    /\ call.text[5] # call.text[6]

\* The call Encode("ABCDEF", NONE) with no size constraint has returned.
EncodedABCDEF == pc = "done" /\ call = Call(ABCDEF, "NONE", -1, -1)

\* C5 as stated: "ABCDEF" gives the latch 230, the triples as 34, 113 and
\* 109, 36, the unlatch 254 and then padding.
C5_AsStated ==
    EncodedABCDEF
    => /\ Len(output) >= 6
       /\ SubSeq(output, 1, 6) = <<230, 34, 113, 109, 36, 254>>
       /\ PaddingFrom(7)

\* C5: "ABCDEF" gives the latch 230, the triple (A,B,C) as 89, 233
\* (v = 23017) and the triple (D,E,F) as 109, 36 (v = 27940); the five
\* codewords fill the symbol of capacity 5, so neither an unlatch nor
\* padding follows.
C5_ABCDEF == EncodedABCDEF => output = <<230, 89, 233, 109, 36>>

C5_Witness == EncodedABCDEF /\ Len(output) = 5

\* The message of the call has the seven octets of header, then at least the
\* two of the trailer.
HasMacro(header) ==
    /\ Len(call.text) >= 9
    /\ SubSeq(call.text, 1, 7) = header
    /\ SubSeq(call.text, Len(call.text) - 1, Len(call.text)) = TrailerOctets

\* The first codeword of a message with header is macro, no other codeword
\* is a macro codeword, and the cursor lies from 7 to the trailer.
MacroHandled(header, macro) ==
    (HasMacro(header) /\ pc \notin {"start", "error"})
    => /\ Len(context.codewords) >= 1
       /\ context.codewords[1] = macro
       /\ \A i \in 2..Len(context.codewords) :
            pc # "done" => context.codewords[i] \notin {MACRO_05, MACRO_06}
       /\ context.pos >= 7
       /\ context.pos <= Len(call.text) - 2

\* C6: a message with the macro-05 (macro-06) header and the trailer starts
\* with the codeword 236 (237), is encoded from cursor 7, and its trailer is
\* never consumed; the payload "foo" gives 236, 103, 112, 112 and padding.
C6_MacroHeader ==
    /\ MacroHandled(Macro05Octets, MACRO_05)
    /\ MacroHandled(Macro06Octets, MACRO_06)
    /\ (pc = "done" /\ call = Call(Macro05Octets \o Foo \o TrailerOctets, "NONE", -1, -1))
       => SubSeq(output, 1, 4) = <<236, 103, 112, 112>> /\ PaddingFrom(5)

\* C7: the padding of a returned call is 129 at its first position and
\* Pad253(p) at every later position p; the output for the empty message is
\* padding from its first position to the capacity of the smallest symbol.
C7_PaddingExact ==
    pc = "done"
    => /\ PaddingFrom(PadStart)
       /\ call.text = <<>> => PadStart = 1 /\ Len(output) = Symbols[1].cap

\* A call returned with a randomized pad that wrapped at 254.
C7_Witness ==
    /\ pc = "done"
    /\ \E p \in (PadStart + 1)..Len(output) : 129 + ((149 * p) % 253) + 1 > 254

\* C8: when EncodeASCII finds fewer than two digits at the cursor and the
\* look-ahead stays in ASCII, it moves the cursor on by one and adds c + 1
\* for c < 128, and 235 then c - 128 + 1 for c >= 128.
C8_SingleAsciiCharacter ==
    [][(/\ pc = "loop"
        /\ pc' = "adopt"
        /\ encodingMode = ASCII_ENCODATION
        /\ DetermineConsecutiveDigitCount(context.msg, context.pos) < 2
        /\ LookAheadTest(context.msg, context.pos, ASCII_ENCODATION) = ASCII_ENCODATION)
       => /\ context'.pos = context.pos + 1
          /\ context'.codewords
               = context.codewords
                 \o (IF CurrentChar(context) < 128
                     THEN <<CurrentChar(context) + 1>>
                     ELSE <<235, CurrentChar(context) - 128 + 1>>)]_vars

\* EncodeASCII has just encoded the octet 0xE9 at the start of a message.
C8_Witness ==
    /\ pc = "adopt"
    /\ hist.step = "EncodeASCII"
    /\ context.pos = 1
    /\ context.msg[1] = 233
    /\ context.codewords = <<235, 106>>

\* A symbol fits the codewords gathered, the run in the Base 256 buffer and
\* one length byte.
RunFits == UpdateSymbolInfo(context, CodewordCount(context) + Len(buffer)).symbolInfo # 0

\* C9 as stated: every Base 256 run of more than 1555 octets fails with
\* MessageTooLong, and the runs of 249, 250 and 1555 octets are accepted.
C9_AsStated ==
    [][pc = "b256end"
       => /\ Len(buffer) - 1 > 1555 => error' = "MessageTooLong"
          /\ Len(buffer) - 1 \in {249, 250, 1555} => error' = "none"]_vars

\* C9: a Base 256 run of at most 1555 octets is accepted whenever a symbol
\* fits it.  A longer run fits a symbol only when it has 1556 octets and,
\* with the latch and one length byte, fills the largest symbol; it fails
\* with MessageTooLong when characters remain after it, and is accepted
\* with the length byte 0 when it ends the message.  Every other run fails
\* with NoFittingSymbol.
C9_RunLimit ==
    [][pc = "b256end"
       => /\ ~RunFits => error' = "NoFittingSymbol"
          /\ (RunFits /\ Len(buffer) - 1 <= 1555) => (error' = "none" /\ pc' = "adopt")
          /\ (RunFits /\ Len(buffer) - 1 > 1555)
             => /\ Len(buffer) - 1 = 1556
                /\ HasMoreCharacters(context) => error' = "MessageTooLong"
                /\ ~HasMoreCharacters(context)
                   => /\ error' = "none"
                      /\ pc' = "adopt"
                      /\ Len(context'.codewords) = Len(context.codewords) + 1557]_vars

\* A run of 1556 octets has been accepted.
C9_Witness ==
    /\ pc = "adopt"
    /\ hist.step = "EncodeBase256"
    /\ error = "none"
    /\ Len(buffer) - 1 = 1556

\* C10: when the X12 compactor returns, the cursor has moved back by the
\* number of values left in its buffer.
C10_X12Rewind ==
    [][(pc = "x12eod" /\ pc' = "adopt")
       => context'.pos = context.pos - Len(buffer)]_vars


\* Whether X12's end-of-data handler owes the unlatch: the condition of
\* line 641 for the cursor moved back by the values left in the buffer.
X12UnlatchDue ==
    LET remaining == RemainingCharacters(context) + Len(buffer)
        avail == DataCapacity(UpdateSymbolInfo(context, CodewordCount(context)))
                 - CodewordCount(context)
    IN remaining > 1 \/ avail > 1 \/ remaining # avail

\* C11: when an X12 run ends, 254 is appended to the context's codewords if
\* and only if remainingCharacters > 1, or available > 1, or
\* remainingCharacters # available (remainingCharacters taken after the
\* rewind); a run followed by more characters always ends with 254.
C11_X12Unlatch ==
    [][(pc = "x12eod" /\ pc' = "adopt")
       => /\ X12UnlatchDue <=> context'.codewords = Append(context.codewords, X12_UNLATCH)
          /\ ~X12UnlatchDue => context'.codewords = context.codewords
          /\ HasMoreCharacters(context)
             => context'.codewords = Append(context.codewords, X12_UNLATCH)]_vars


\* The steps that may move the cursor backwards: a backtrack of the C40/Text
\* tail adjustment and the three end-of-data handlers.
RewindSteps == {"Backtrack", "C40HandleEOD", "EdifactHandleEOD", "X12HandleEOD"}

\* C12: the cursor moves backwards only in the named backtracks, and a
\* compactor that returns with values it consumed but did not emit leaves
\* the cursor on the first character they belong to: a backtrack of C40/Text
\* drops no more values than the character it goes back to has, C40/Text
\* goes back by the one value it leaves over, X12 by every value left in its
\* buffer, and EDIFACT by the characters it hands over to ASCII when it
\* emits nothing.
C12_NoOctetLost ==
    [][/\ context'.pos < context.pos => hist'.step \in RewindSteps
       /\ (hist'.step = "Backtrack" /\ pc' # "error")
          => /\ context'.pos = context.pos - 1
             /\ Len(buffer) - Len(buffer')
                  <= Len(EncodeCharOf(encodingMode, context.msg[context'.pos + 1]))
       /\ (pc = "c40eod" /\ pc' = "adopt") => context'.pos = context.pos - Len(buffer')
       /\ (pc = "x12eod" /\ pc' = "adopt") => context'.pos = context.pos - Len(buffer)
       /\ (pc = "edifacteod" /\ pc' = "adopt")
          => context'.pos = context.pos - (IF context'.codewords = context.codewords
                                           THEN Len(buffer) ELSE 0)]_vars


\* The C40 or Text values of the characters of the message from the cursor
\* from up to, not including, the cursor to.
RECURSIVE RunValues(_, _)
RunValues(from, to) ==
    IF from >= to THEN <<>>
    ELSE EncodeCharOf(encodingMode, context.msg[from + 1]) \o RunValues(from + 1, to)

\* The buffer of the C40/Text run holds the values of the characters from
\* some start of the run up to the cursor.
BufferIsRunUpToCursor ==
    \E from \in 0..context.pos : buffer = RunValues(from, context.pos)

\* C18: in the tail adjustment the buffer holds the values of the characters
\* of the run up to the cursor, after any number of backtracks; a backtrack
\* takes the cursor back by one and never asks for more values than the
\* buffer holds.
C18_BacktrackKeepsBuffer ==
    /\ pc \in {"c40tail", "c40tailloop"} => BufferIsRunUpToCursor
    /\ error # "LengthError"


\* C13: between characters of a Text run the compactor leaves the run
\* exactly when its buffer length is a multiple of 3 and the look-ahead with
\* current mode Text selects a mode other than Text; while that look-ahead
\* selects Text the run goes on.
C13_TextLookAhead ==
    [][(pc = "c40" /\ encodingMode = TEXT_ENCODATION /\ pc' \in {"c40", "c40eod"})
       => (pc' = "c40eod"
           <=> /\ (Len(buffer') % 3) = 0
               /\ LookAheadTest(context.msg, context'.pos, TEXT_ENCODATION)
                    # TEXT_ENCODATION)]_vars


\* What the symbol selected for codewordCount + restChars leaves available,
\* at the entry of EDIFACT's end-of-data handler: the buffer holds the
\* restChars values, the unlatch value not yet pushed.
EdifactSpare ==
    DataCapacity(UpdateSymbolInfo(context, CodewordCount(context) + Len(buffer)))
    - CodewordCount(context)

\* The handler took the Ascii fallback: the cursor went back by restChars
\* and no codeword was emitted.
EdifactFellBack ==
    /\ context'.pos = context.pos - Len(buffer)
    /\ context'.codewords = context.codewords

\* The handler emitted the packed codewords of the buffer and the unlatch
\* value, and left the cursor.
EdifactEmitted ==
    /\ context'.pos = context.pos
    /\ context'.codewords
         = context.codewords \o EdifactEncodeToCodewords(Append(buffer, 31))

\* C14 as stated: the Ascii fallback is taken exactly when no characters
\* remain, restChars <= 2 and the symbol selected for codewordCount +
\* restChars leaves at least 3 codewords available; otherwise the packed
\* codewords are emitted and the cursor is not moved.
C14_AsStated ==
    [][(pc = "edifacteod" /\ pc' = "adopt")
       => IF ~HasMoreCharacters(context) /\ Len(buffer) <= 2 /\ EdifactSpare >= 3
          THEN EdifactFellBack
          ELSE EdifactEmitted]_vars

\* C14: the Ascii fallback is taken exactly when no characters remain,
\* restChars <= 2 and the symbol selected for codewordCount + restChars
\* leaves fewer than 3 codewords available (capacity - codewordCount <= 2);
\* otherwise the packed codewords are emitted and the cursor is not moved.
C14_EdifactFallback ==
    [][(pc = "edifacteod" /\ pc' = "adopt")
       => IF ~HasMoreCharacters(context) /\ Len(buffer) <= 2 /\ EdifactSpare < 3
          THEN EdifactFellBack
          ELSE EdifactEmitted]_vars

\* The handler has handed one or two characters over to ASCII.
C14_Witness ==
    /\ pc = "adopt"
    /\ hist.step = "EdifactHandleEOD"
    /\ Len(buffer) \in {2, 3}
    /\ RemainingCharacters(context) = Len(buffer) - 1
    /\ context.symbolInfo = 0


\* C15: every run of the EDIFACT compactor, on every path through its
\* end-of-data handler, a failure in it included, leaves newEncoding =
\* Ascii.
C15_EdifactEndsInAscii ==
    [][pc = "edifacteod" => context'.newEncoding = ASCII_ENCODATION]_vars

\* The mode the look-ahead gives from startpos when its accumulators start
\* at cc.
LookAheadFrom(msg, startpos, cc) == LookAheadLoop(msg, startpos, 0, cc)

\* The mode the look-ahead of a step gave a compactor whose mode is mode:
\* the one it asks for, its own when it asks for none.
ModeChosen(mode) ==
    IF context'.newEncoding >= 0 THEN context'.newEncoding ELSE mode

\* EncodeASCII consults the look-ahead in this step.
AsciiLooksAhead ==
    /\ pc = "loop"
    /\ pc' = "adopt"
    /\ encodingMode = ASCII_ENCODATION
    /\ DetermineConsecutiveDigitCount(context.msg, context.pos) < 2

\* EncodeX12 consults the look-ahead in this step, characters remaining.
X12LooksAhead ==
    /\ pc = "x12"
    /\ pc' \in {"x12", "x12eod"}
    /\ Len(buffer') = 0
    /\ HasMoreCharacters(context')

\* C16 as stated: with current mode Ascii the accumulators start at
\* 0.5, 1, 1, 1, 1, 1.25; with another current mode they start doubled and
\* that of the current mode at 0.
C16_AsStated ==
    [][/\ AsciiLooksAhead
          => ModeChosen(ASCII_ENCODATION)
               = LookAheadFrom(context.msg, context.pos,
                               <<FUnit \div 2, FUnit, FUnit, FUnit, FUnit,
                                 (5 * FUnit) \div 4>>)
       /\ X12LooksAhead
          => ModeChosen(X12_ENCODATION)
               = LookAheadFrom(context.msg, context'.pos,
                               <<FUnit, 2 * FUnit, 2 * FUnit, 0, 2 * FUnit,
                                 (5 * FUnit) \div 2>>)]_vars

\* C16: with current mode Ascii the accumulators start at 0, 1, 1, 1, 1,
\* 1.25: that of the current mode is set to 0 whatever the mode; with
\* another current mode they start doubled (1, 2, 2, 2, 2, 2.5) and that of
\* the current mode at 0.
C16_InitialCounts ==
    [][/\ AsciiLooksAhead
          => ModeChosen(ASCII_ENCODATION)
               = LookAheadFrom(context.msg, context.pos,
                               <<0, FUnit, FUnit, FUnit, FUnit, (5 * FUnit) \div 4>>)
       /\ X12LooksAhead
          => ModeChosen(X12_ENCODATION)
               = LookAheadFrom(context.msg, context'.pos,
                               <<FUnit, 2 * FUnit, 2 * FUnit, 0, 2 * FUnit,
                                 (5 * FUnit) \div 2>>)]_vars

\* EncodeASCII has encoded a character that is no digit and stayed in
\* ASCII where the look-ahead with the Ascii accumulator started at 0.5
\* would have left it.
C16_Witness ==
    /\ pc = "adopt"
    /\ hist.step = "EncodeASCII"
    /\ context.newEncoding < 0
    /\ context.pos >= 1
    /\ ~IsDigit(context.msg[context.pos])
    /\ LookAheadFrom(context.msg, context.pos - 1, StartCharCounts) # ASCII_ENCODATION


\* Step R comes to rule (f)'s tie for the ceiled counts ic: rules (a) to (e)
\* do not fire, C40 + 1 is below Ascii, Base 256, EDIFACT and Text, and C40
\* equals X12.
TieInStepR(ic) ==
    /\ \E i \in 2..6 : ic[i] <= ic[1]
    /\ ic[Idx(BASE256_ENCODATION)] >= ic[Idx(ASCII_ENCODATION)]
    /\ \E m \in {C40_ENCODATION, TEXT_ENCODATION, X12_ENCODATION, EDIFACT_ENCODATION} :
          ic[Idx(m)] = MinOf(ic)
    /\ ~(/\ MinCount(FindMinimums(ic)) = 1
         /\ \E m \in {EDIFACT_ENCODATION, TEXT_ENCODATION, X12_ENCODATION} :
               ic[Idx(m)] = MinOf(ic))
    /\ C40Favoured(ic)
    /\ ic[Idx(C40_ENCODATION)] = ic[Idx(X12_ENCODATION)]

\* The number of characters the look-ahead from startpos has processed when
\* it decides by the tie of rule (f), -1 when it decides otherwise.
RECURSIVE TieAfter(_, _, _, _)
TieAfter(msg, startpos, charsProcessed, cc) ==
    IF startpos + charsProcessed = Len(msg) THEN -1
    ELSE IF charsProcessed + 1 >= 4
            /\ StepR(UpdateCharCounts(cc, ToChar(msg[startpos + charsProcessed + 1])),
                     msg, startpos, charsProcessed + 1) >= 0
    THEN IF TieInStepR(IntCharCounts(
                 UpdateCharCounts(cc, ToChar(msg[startpos + charsProcessed + 1]))))
         THEN charsProcessed + 1
         ELSE -1
    ELSE TieAfter(msg, startpos, charsProcessed + 1,
                  UpdateCharCounts(cc, ToChar(msg[startpos + charsProcessed + 1])))

\* The tie of a look-ahead from startpos with the current mode mode.
TieOf(startpos, mode) == TieAfter(context.msg, startpos, 0, InitialCharCounts(mode))

\* What the tie gives when the characters are scanned from index p: X12
\* when a terminator or separator comes before a character not native to
\* X12, else C40.
ScanFrom(p) == X12Scan(context.msg, p)

\* EncodeC40 consults the look-ahead in this step of a C40 or Text run.
C40LooksAhead ==
    /\ pc = "c40"
    /\ pc' \in {"c40", "c40eod"}
    /\ (Len(buffer') % 3) = 0

\* C17: when the look-ahead decides by the tie of rule (f) after n
\* characters, it gives X12 if and only if, from the first character it has
\* not processed (index startpos + n) on, a terminator or separator comes
\* before a character that is not native to X12; else C40.
C17_TieScan ==
    [][/\ (AsciiLooksAhead /\ TieOf(context.pos, ASCII_ENCODATION) > 0)
          => ModeChosen(ASCII_ENCODATION)
               = ScanFrom(context.pos + TieOf(context.pos, ASCII_ENCODATION))
       /\ (C40LooksAhead /\ TieOf(context'.pos, C40_ENCODATION) > 0)
          => ModeChosen(C40_ENCODATION)
               = ScanFrom(context'.pos + TieOf(context'.pos, C40_ENCODATION))
       /\ (X12LooksAhead /\ TieOf(context'.pos, X12_ENCODATION) > 0)
          => ModeChosen(X12_ENCODATION)
               = ScanFrom(context'.pos + TieOf(context'.pos, X12_ENCODATION))]_vars


\* rest, and the codeword count and available the C40/Text end-of-data
\* handler computes at its entry.
C40Rest == Len(buffer) % 3

C40CountAtEOD == CodewordCount(context) + (Len(buffer) \div 3) * 2

C40AvailableAtEOD ==
    DataCapacity(UpdateSymbolInfo(context, C40CountAtEOD)) - C40CountAtEOD

\* C19: the end-of-data handler of C40/Text is entered only with rest = 2,
\* or rest = 0, or rest = 1 together with available = 1 (available as the
\* handler computes it), and Encode never fails with InternalInvariant.
C19_NoInternalInvariant ==
    /\ error # "InternalInvariant"
    /\ (pc = "c40eod" /\ UpdateSymbolInfo(context, C40CountAtEOD).symbolInfo # 0)
       => \/ C40Rest = 2
          \/ C40Rest = 0
          \/ C40Rest = 1 /\ C40AvailableAtEOD = 1

\* Whether the handler owes the unlatch: for rest = 0 when codewords are
\* available or characters remain, else when characters remain.
C40UnlatchDue ==
    IF C40Rest = 0
    THEN C40AvailableAtEOD > 0 \/ HasMoreCharacters(context)
    ELSE HasMoreCharacters(context)

\* The codewords the handler's flush leaves in the context: those of the
\* full triples, and of the triple padded with 0 when rest = 2.
C40FlushedCount == C40CountAtEOD + (IF C40Rest = 2 THEN 2 ELSE 0)

\* C20: when the end-of-data handler of C40/Text returns, it has flushed the
\* triples (padding with 0 for rest = 2) and then emitted 254 exactly when:
\* rest = 2, or rest = 1 with available = 1, and characters remained at its
\* entry; rest = 0, and available > 0 or characters remained.  For rest = 1
\* it has moved the cursor back by 1, and not otherwise.
C20_C40Unlatch ==
    [][(pc = "c40eod" /\ pc' = "adopt")
       => /\ C40Rest = 1 => C40AvailableAtEOD = 1
          /\ Len(context'.codewords) = C40FlushedCount + (IF C40UnlatchDue THEN 1 ELSE 0)
          /\ SubSeq(context'.codewords, 1, Len(context.codewords)) = context.codewords
          /\ C40UnlatchDue => context'.codewords[Len(context'.codewords)] = C40_UNLATCH
          /\ context'.pos = context.pos - (IF C40Rest = 1 THEN 1 ELSE 0)]_vars

\* The handler has returned for rest = 1: one value is left over and the
\* cursor is back on its character.
C20_Witness ==
    /\ pc = "adopt"
    /\ hist.step = "C40HandleEOD"
    /\ Len(buffer) = 1
    /\ RemainingCharacters(context) = 1


\* The capacity of the symbol chosen for the codeword count at the end of
\* the driver loop.
CapacityAtEnd ==
    DataCapacity(UpdateSymbolInfo(context, CodewordCount(context)))

\* Whether finalization owes the unlatch: room is left in the symbol and
\* the driver's mode is neither Ascii nor Base256.
FinalUnlatchDue ==
    /\ CodewordCount(context) < CapacityAtEnd
    /\ encodingMode # ASCII_ENCODATION
    /\ encodingMode # BASE256_ENCODATION

\* C21: at finalization, with len the codeword count when the driver loop
\* ends and C the capacity of the symbol chosen for len, the codeword 254 is
\* appended once, before any padding, if and only if len < C and the
\* driver's mode is neither Ascii nor Base256; otherwise what follows the
\* len codewords, if anything, is the pad 129.
C21_FinalUnlatch ==
    [][(pc = "loop" /\ pc' = "done")
       => /\ SubSeq(output', 1, CodewordCount(context)) = context.codewords
          /\ FinalUnlatchDue
             => /\ output'[CodewordCount(context) + 1] = 254
                /\ CodewordCount(context) + 1 < Len(output')
                   => output'[CodewordCount(context) + 2] = PAD
          /\ (~FinalUnlatchDue /\ CodewordCount(context) < Len(output'))
             => output'[CodewordCount(context) + 1] = PAD]_vars


\* The run the Base 256 compactor holds at its end: its octets are those of
\* the message before the cursor.
B256DataCount == Len(buffer) - 1

B256Data == SubSeq(context.msg, context.pos - B256DataCount + 1, context.pos)

\* The size of the run with one length byte after the codewords gathered,
\* and whether a length is written: characters remain or the symbol chosen
\* for that size has spare capacity.
B256Size == CodewordCount(context) + B256DataCount + 1

B256LengthWritten ==
    \/ HasMoreCharacters(context)
    \/ DataCapacity(UpdateSymbolInfo(context, B256Size)) - B256Size > 0

\* The length prefix of a run of dataCount octets.
B256Prefix(dataCount) ==
    IF ~B256LengthWritten THEN <<0>>
    ELSE IF dataCount <= 249 THEN <<dataCount>>
    ELSE <<(dataCount \div 250) + 249, dataCount % 250>>

\* randomize255 of the bytes of field, written after count codewords.
Randomized255(field, count) ==
    [i \in 1..Len(field) |-> (field[i] + ((149 * (count + i)) % 255) + 1) % 256]

\* C22: a Base 256 run of dataCount octets is emitted as randomize255 of its
\* length prefix and its octets, the prefix being, when characters remain
\* after the run or the chosen symbol has spare capacity, the byte dataCount
\* for dataCount <= 249 and the two bytes dataCount div 250 + 249 and
\* dataCount mod 250 for 250 <= dataCount <= 1555, and the single byte 0 when
\* the run ends the message and fills the symbol.
C22_Base256Length ==
    [][(pc = "b256end" /\ pc' = "adopt")
       => /\ B256LengthWritten => B256DataCount <= 1555
          /\ context'.codewords
               = context.codewords
                 \o Randomized255(B256Prefix(B256DataCount) \o B256Data,
                                  CodewordCount(context))]_vars

\* A run of 250 octets has been emitted with the two length bytes 250, 0.
C22_Witness ==
    /\ pc = "adopt"
    /\ hist.step = "EncodeBase256"
    /\ Len(buffer) = 252
    /\ buffer[1] = 250
    /\ buffer[2] = 0
    /\ Len(context.codewords) = 253


\* s is a prefix of t.
IsPrefix(s, t) == Len(s) <= Len(t) /\ SubSeq(t, 1, Len(s)) = s

\* C23: the codeword sequence of the context only grows: in every step of
\* an encode call (a compactor step, a backtrack, an end-of-data handler,
\* the finalization) the sequence before the step is a prefix of the
\* sequence after it, so the sequence at an earlier point is a prefix of
\* the sequence at every later point.
C23_CodewordsOnlyGrow ==
    [][IsPrefix(context.codewords, context'.codewords)]_vars

\* A backtrack of the tail adjustment has acted with codewords in the
\* context.
C23_Witness ==
    /\ pc = "c40tailloop"
    /\ hist.step = "Backtrack"
    /\ Len(context.codewords) > 0


\* C24: Encode never fails with IllegalCharacter: the character the X12
\* compactor is about to consume is encodable in X12 (CR, '*', '>', space,
\* digit, A-Z), the character the EDIFACT compactor is about to consume is
\* encodable in EDIFACT (0x20..0x5E), and the C40 and Text value mappings
\* are total on the octets 0..255.
C24_NoIllegalCharacter ==
    /\ error # "IllegalCharacter"
    /\ pc = "x12" => X12EncodeChar(CurrentChar(context)) # Illegal
    /\ pc = "edifact" => EdifactEncodeChar(CurrentChar(context)) # Illegal
    /\ pc = "start"
       => \A c \in 0..255 : /\ EncodeCharOf(C40_ENCODATION, c) # Illegal
                            /\ EncodeCharOf(TEXT_ENCODATION, c) # Illegal


\* The last codeword of the context, -1 when it has none.
LastCodeword ==
    IF CodewordCount(context) = 0 THEN -1 ELSE context.codewords[CodewordCount(context)]

\* C25: the driver takes up a mode other than Ascii only from Ascii, and
\* whenever it starts running the compactor of a mode other than Ascii the
\* codeword emitted immediately before is the latch of that mode (230, 239,
\* 238, 240, 231 for C40, Text, X12, Edifact, Base256).
C25_LatchDiscipline ==
    [][/\ (pc = "adopt" /\ encodingMode' # encodingMode
                        /\ encodingMode' # ASCII_ENCODATION)
          => /\ encodingMode = ASCII_ENCODATION
             /\ LastCodeword = LATCHES[Idx(encodingMode')]
       /\ (pc = "loop" /\ pc' \in {"c40", "x12", "edifact", "b256"})
          => LastCodeword = LATCHES[Idx(encodingMode)]]_vars


\* The cursor at which encoding starts: after the macro header when one was
\* recognised.
StartCursor == IF context.skipAtEnd = 2 THEN 7 ELSE 0

\* C26: in every state of an encode call the cursor lies between the start
\* (0, or 7 after a macro header) and the length of the message less
\* skipAtEnd, and it is never before the position at which the compactor
\* run of the current pass of the driver loop began, whatever backtracks,
\* end-of-data decrement or EDIFACT rewind that run has made.
C26_CursorInBounds ==
    pc # "start"
    => /\ StartCursor <= context.pos
       /\ context.pos <= Len(context.msg) - context.skipAtEnd
       /\ pc # "done" => hist.runStart <= context.pos

\* Two backtracks of the tail adjustment have acted in a run that began
\* after the start of the message.
C26_Witness ==
    /\ pc = "c40tailloop"
    /\ hist.step = "Backtrack"
    /\ context.pos = Len(context.msg) - 2
    /\ hist.runStart > 0


\* The calls whose termination is checked: all but the long Base 256 runs.
LiveCalls == ShortCalls \cup DigitCalls \cup ScenarioCalls

\* Encode runs on until it returns or an exception leaves it: a step that
\* can be taken is taken.
FairSpec == InitWith(LiveCalls) /\ [][Next]_vars /\ WF_vars(Next)

\* Encode has returned the codewords or raised an error.
Terminated == pc \in {"done", "error"}

\* A pass of the driver loop has ended (the compactor has returned) with the
\* cursor further than any pass before it left it, or with more codewords
\* than it began with.
PassProgress ==
    pc = "adopt" =>
        \/ context.pos > hist.far
        \/ Len(context.codewords) > hist.count

\* C27: Encode terminates: it eventually returns the codewords or raises an
\* error, and every pass of the driver loop leaves the cursor strictly
\* further than any earlier pass did or appends at least one codeword.
C27_Terminates == <>Terminated /\ []PassProgress

\* A pass has ended that did not move the cursor beyond where an earlier pass
\* had left it, after the cursor had moved: it went on by its codewords only.
C27_Witness ==
    /\ pc = "adopt"
    /\ hist.far > 0
    /\ context.pos <= hist.far
    /\ Len(context.codewords) > hist.count

=============================================================================
